---- MODULE Spec2Model ----
(***************************************************************************)
(* A model of the GraphQL back end: the authentication middleware, the     *)
(* resolvers (createUser, login, createPost, posts, post, updatePost,      *)
(* deletePost, user, updateStatus), the image upload endpoint and the      *)
(* clearImage helper, over a document store of Users and Posts and a file  *)
(* store of images.  A resolver is cut at its awaits: the code between two *)
(* awaits runs without interruption on the event loop, and one store       *)
(* operation on one document is atomic.                                    *)
(***************************************************************************)
EXTENDS Integers, Sequences, FiniteSets, TLC

\* ------------------------------------------------------------------ bounds
MaxCalls == 2      \* calls that may be in progress at once
MaxUsers == 2      \* users ever registered
MaxPosts == 1      \* posts ever created
MaxTokens == 2     \* tokens issued while the clock advances
MaxStored == 5     \* posts in the store that is paged through
MaxOwned == 2      \* posts ever created where the effects on posts are checked

\* ------------------------------------------------------- program constants
MinLen == 5                         \* validator.isLength(..., { min: 5 })
SaltRounds == 12                    \* bcrypt.hash(password, 12)
PerPage == 2                        \* const perPage = 2
TokenTTL == 3600                    \* expiresIn: '1h', in seconds
Secret == "somesupersecretsecret"   \* the signing secret
DefaultStatus == "I am new!"        \* userSchema.status.default
Sentinel == "undefined"             \* the image reference meaning "unchanged"
NoCode == 0                         \* an Error that was given no code

\* ------------------------------------------------------------------ inputs
\* E-mail addresses are sequences of characters, so that isEmail can look at
\* them; every other string is a TLA+ string.
EmailA == <<"a", "@", "x", ".", "y">>
EmailB == <<"b", "@", "x", ".", "y">>
EmailBad == <<"a", "x", ".", "y">>
Emails == {EmailA, EmailB, EmailBad}
Passwords == {"", "abc", "secret"}
Names == {"Ann"}
Titles == {"", "Hey", "Hello", "World"}
Contents == {"", "abc", "Lorem"}
Statuses == {"busy"}
OriginalNames == {"a.png"}
MimeTypes == {"image/png", "text/plain"}
Salts == {"salt"}

\* ------------------------------------------------------------------- state
VARIABLES
  users,     \* the users collection: a sequence, a user's _id is its index
  posts,     \* the posts collection: _id -> document
  postSeq,   \* how many post _ids the store has handed out
  files,     \* the file store: the absolute paths that hold a file
  unlinks,   \* fs.unlink calls issued by clearImage and not yet performed
  issued,    \* the tokens login has returned to clients
  now,       \* the clock, in seconds
  calls,     \* per slot: the call in progress, or its result before it goes out
  failed     \* history: some call has ended in an error

vars == <<users, posts, postSeq, files, unlinks, issued, now, calls, failed>>

Calls == 1..MaxCalls

\* ------------------------------------------------------------ conversions
\* ObjectId.toString(): the identifier as the client sees it.
IdStr(id) == "id" \o ToString(id)
\* Date.toISOString()
ToISOString(t) == "1970-01-01T" \o ToString(t) \o "Z"

UserIds == 1..Len(users)
PostIds == DOMAIN posts
\* Model.findById(str): the documents whose _id casts from the string.
\* (a variant that finds no user)
UsersByIdNone(s) == {}
UsersById(s) == {u \in UserIds : IdStr(u) = s}
PostsById(s) == {p \in PostIds : IdStr(p) = s}
UsersByEmail(e) == {u \in UserIds : users[u].email = e}

\* ------------------------------------------------------------- validation
\* validator.isEmail, reduced to: one "@", a non-empty local part, and a
\* domain with a dot that is neither its first nor its last character.
IsEmail(s) ==
  \E i \in 2..Len(s) :
    /\ s[i] = "@"
    /\ \A j \in 1..Len(s) : s[j] = "@" => j = i
    /\ \E k \in (i + 2)..(Len(s) - 1) : s[k] = "."
IsEmpty(s) == Len(s) = 0
IsLength(s, min) == Len(s) >= min

Msg(m) == [message |-> m]
\* (a variant that stops at the first violated rule)
UserInputErrorsFirstOnly(userInput) ==
  IF ~IsEmail(userInput.email) THEN <<Msg("E-Mail is invalid.")>>
  ELSE IF IsEmpty(userInput.password) \/ ~IsLength(userInput.password, MinLen)
    THEN <<Msg("Password too short!")>>
  ELSE <<>>
\* createUser, lines 22-36: every violated rule adds its message, in order.
UserInputErrors(userInput) ==
  (IF ~IsEmail(userInput.email) THEN <<Msg("E-Mail is invalid.")>> ELSE <<>>)
  \o (IF IsEmpty(userInput.password) \/ ~IsLength(userInput.password, MinLen)
        THEN <<Msg("Password too short!")>> ELSE <<>>)
\* (a variant that accepts every title and content)
PostInputErrorsNone(postInput) == <<>>
\* createPost, lines 122-139, and updatePost, lines 288-301.
PostInputErrors(postInput) ==
  (IF IsEmpty(postInput.title) \/ ~IsLength(postInput.title, MinLen)
     THEN <<Msg("Title is invalid.")>> ELSE <<>>)
  \o (IF IsEmpty(postInput.content) \/ ~IsLength(postInput.content, MinLen)
        THEN <<Msg("Content is invalid.")>> ELSE <<>>)

\* ------------------------------------------------------------ credentials
\* bcrypt.hash: the cost and the salt in front of the digest of the password
\* under that salt.
BcryptPrefix(rounds, salt) == "$2a$" \o ToString(rounds) \o "$" \o salt \o "$"
BcryptHash(password, rounds, salt) == BcryptPrefix(rounds, salt) \o password
\* bcrypt.compare: hash the password again under the cost and salt the stored
\* hash starts with, and compare.
BcryptCompare(password, hash) ==
  \E n \in 1..Len(hash) :
    /\ SubSeq(hash, 1, n) \in {BcryptPrefix(SaltRounds, salt) : salt \in Salts}
    /\ hash = SubSeq(hash, 1, n) \o password
\* (a variant that signs a payload without the user's identifier)
JwtSignNoUser(userId, email, secret, t) ==
  [userId |-> "", email |-> email, iat |-> t, exp |-> t + TokenTTL,
   key |-> secret]
\* jwt.sign(payload, secret, { expiresIn: '1h' })
JwtSign(userId, email, secret, t) ==
  [userId |-> userId, email |-> email, iat |-> t, exp |-> t + TokenTTL,
   key |-> secret]
\* (a variant that does not look at the expiry time)
JwtVerifyNoExpiry(token, secret, t) == token.key = secret
\* jwt.verify: the signature is the secret's and the token has not expired.
JwtVerify(token, secret, t) == token.key = secret /\ t < token.exp

\* ------------------------------------------------------------------- paths
Cwd == "backend"                    \* the directory the server runs in
\* path.join(__dirname, '..', filePath) of clearImage: __dirname is the util
\* directory of the server, so the path is filePath under the server directory.
ClearImagePath(filePath) == Cwd \o "/" \o filePath
\* multer's diskStorage: destination 'images', filename ISO time-originalname.
UploadPath(t, originalname) ==
  "images" \o "/" \o ToISOString(t) \o "-" \o originalname
\* where a path relative to the working directory lies in the file store
Resolve(path) == Cwd \o "/" \o path
\* (a variant that accepts every file)
FileFilterAll(file) == TRUE
\* fileFilter: png, jpg and jpeg are accepted, anything else is dropped.
FileFilter(file) == file.mimetype \in {"image/png", "image/jpg", "image/jpeg"}

ImagePath == UploadPath(0, "a.png")
ImageUrls == {ImagePath}
NoFile == [originalname |-> "", mimetype |-> ""]
UploadFiles == {NoFile} \cup [originalname : OriginalNames, mimetype : MimeTypes]
NoOldPath == ""
OldPaths == {NoOldPath, ImagePath}
PostIdArgs == {IdStr(i) : i \in 1..MaxPosts}
Pages == {0, 1, 2}                  \* 0: the page argument is absent

\* ---------------------------------------------------------------- results
NoValue == [kind |-> "none"]
NoArg == [kind |-> "none"]
NoLoc == [kind |-> "none"]
NoResp == [ok |-> FALSE, message |-> "", code |-> NoCode, data |-> <<>>,
           value |-> NoValue]
\* new Error(message) with error.code and error.data as the resolver set them
Error(message, code, data) ==
  [ok |-> FALSE, message |-> message, code |-> code, data |-> data,
   value |-> NoValue]
Ok(value) ==
  [ok |-> TRUE, message |-> "", code |-> NoCode, data |-> <<>>, value |-> value]
NotAuthenticated == Error("Not authenticated!", 401, <<>>)
InvalidInput(errors) == Error("Invalid input.", 422, errors)
NoPostFound == Error("No post found!", 404, <<>>)
NotAuthorized == Error("Not authorized!", 403, <<>>)
NoUserFound == Error("No user found!", 404, <<>>)

\* ------------------------------------------------- what the caller receives
\* The fields a caller can select of each type of the schema.
UserFields == {"_id", "name", "email", "password", "status", "posts"}
PostFields ==
  {"_id", "title", "content", "imageUrl", "creator", "createdAt", "updatedAt"}
AuthDataFields == {"token", "userId"}
PostDataFields == {"posts", "totalPosts"}
SelectUser(u) == [f \in UserFields \cap DOMAIN u |-> u[f]]
SelectPost(p) ==
  [f \in PostFields \cap DOMAIN p |->
     IF f = "creator" THEN SelectUser(p[f]) ELSE p[f]]
\* The result of a resolver as the schema lets the caller see it.
Select(value) ==
  IF value.kind = "User" THEN SelectUser(value)
  ELSE IF value.kind = "Post" THEN SelectPost(value)
  ELSE IF value.kind = "AuthData"
    THEN [f \in AuthDataFields \cap DOMAIN value |-> value[f]]
  ELSE IF value.kind = "PostData"
    THEN [posts |-> [i \in DOMAIN value.posts |-> SelectPost(value.posts[i])],
          totalPosts |-> value.totalPosts]
  ELSE value

\* (a variant that passes the code on as it is, without a default)
FormatErrorNoDefault(e) ==
  [message |-> e.message, status |-> e.code, data |-> e.data]
\* formatError of the GraphQL endpoint: the message, the code attached to the
\* error or 500, and the data attached to it.
FormatError(e) ==
  [message |-> IF e.message = "" THEN "An error occurred." ELSE e.message,
   status |-> IF e.code = NoCode THEN 500 ELSE e.code,
   data |-> e.data]

NoOut == [kind |-> "none"]
\* What goes out for a call of op that ended in resp: the answer of the
\* upload endpoint as it is, a GraphQL result through the schema, a GraphQL
\* error through formatError.
Out(op, resp) ==
  IF op = "upload"
    THEN [kind |-> "http", status |-> resp.code, message |-> resp.message,
          value |-> resp.value]
  ELSE IF resp.ok THEN [kind |-> "data", data |-> Select(resp.value)]
  ELSE [kind |-> "errors", error |-> FormatError(resp)]

Idle ==
  [op |-> "none", pc |-> "idle", isAuth |-> FALSE, userId |-> "",
   arg |-> NoArg, loc |-> NoLoc, resp |-> NoResp, out |-> NoOut]
Free(c) == calls[c].pc = "idle"

\* --------------------------------------------------------- auth middleware
\* The Authorization header is the sequence of its space-separated parts;
\* an absent header is the empty sequence.
Unauthenticated == [isAuth |-> FALSE, userId |-> ""]
Auth(hdr, t) ==
  IF Len(hdr) = 0 THEN Unauthenticated                \* no header
  ELSE IF Len(hdr) < 2 THEN Unauthenticated           \* verify(undefined) throws
  ELSE IF ~JwtVerify(hdr[2], Secret, t) THEN Unauthenticated
  ELSE [isAuth |-> TRUE, userId |-> hdr[2].userId]

\* The headers a client can send: none, one without a token, one with a token
\* signed with a guessed key, and one with a token login returned.
ForgedToken == JwtSign(IdStr(1), EmailA, "guess", 0)
Headers ==
  {<<>>, <<"Bearer">>, <<"Bearer", ForgedToken>>}
    \cup {<<"Bearer", t>> : t \in issued}

\* A call arrives in slot c: the middleware has run and the resolver op has
\* reached its first await (pc), or has already thrown (Reject).
Begin(c, op, hdr, arg, pc) ==
  /\ calls' = [calls EXCEPT ![c] =
              [op |-> op, pc |-> pc,
               isAuth |-> Auth(hdr, now).isAuth, userId |-> Auth(hdr, now).userId,
               arg |-> arg, loc |-> NoLoc, resp |-> NoResp, out |-> NoOut]]
  /\ UNCHANGED failed
Answer(c, op, hdr, arg, resp) ==
  /\ calls' = [calls EXCEPT ![c] =
              [op |-> op, pc |-> "done",
               isAuth |-> Auth(hdr, now).isAuth, userId |-> Auth(hdr, now).userId,
               arg |-> arg, loc |-> NoLoc, resp |-> resp,
               out |-> Out(op, resp)]]
  /\ failed' = (failed \/ ~resp.ok)
Goto(c, pc, loc) ==
  /\ calls' = [calls EXCEPT ![c] = [@ EXCEPT !.pc = pc, !.loc = loc]]
  /\ UNCHANGED failed
Done(c, resp) ==
  /\ calls' = [calls EXCEPT ![c] = [@ EXCEPT !.pc = "done", !.loc = NoLoc,
                                               !.resp = resp,
                                               !.out = Out(calls[c].op, resp)]]
  /\ failed' = (failed \/ ~resp.ok)
\* The result has gone out to the client; the slot is free again.
Respond(c) ==
  /\ calls[c].pc = "done"
  /\ calls' = [calls EXCEPT ![c] = Idle]
  /\ UNCHANGED <<users, posts, postSeq, files, unlinks, issued, now, failed>>

\* -------------------------------------------------------------- clearImage
\* fs.unlink is issued and performed later; its error is only logged.
\* (a variant that issues no unlink)
ClearImageNothing(filePath) == UNCHANGED unlinks
ClearImage(filePath) == unlinks' = unlinks \cup {ClearImagePath(filePath)}
FsUnlink(path) ==
  /\ path \in unlinks
  /\ unlinks' = unlinks \ {path}
  /\ files' = files \ {path}
  /\ UNCHANGED <<users, posts, postSeq, issued, now, calls, failed>>

\* ------------------------------------------------------------ result shapes
\* { ...user._doc, _id: user._id.toString() }
UserDoc(id, u) ==
  [kind |-> "User", _id |-> IdStr(id), email |-> u.email, name |-> u.name,
   password |-> u.password, status |-> u.status, posts |-> u.posts]
\* { ...post._doc, _id, createdAt: toISOString, updatedAt: toISOString }
PostDoc(id, p, creator) ==
  [kind |-> "Post", _id |-> IdStr(id), title |-> p.title, content |-> p.content,
   imageUrl |-> p.imageUrl, creator |-> creator,
   createdAt |-> ToISOString(p.createdAt), updatedAt |-> ToISOString(p.updatedAt)]
\* populate('creator'): the reference replaced by the referenced user
Populated(id) == PostDoc(id, posts[id], UserDoc(posts[id].creator,
                                               users[posts[id].creator]))

\* -------------------------------------------------------------- createUser
\* (a variant that does not validate)
CreateUserUnvalidated(c, hdr, userInput) ==
  /\ Free(c)
  /\ Begin(c, "createUser", hdr, userInput, "cu_findOne")
  /\ UNCHANGED <<users, posts, postSeq, files, unlinks, issued, now>>

\* lines 19-47: validate, then issue User.findOne({ email }).
CreateUser(c, hdr, userInput) ==
  /\ Free(c)
  /\ IF Len(UserInputErrors(userInput)) > 0
       THEN Answer(c, "createUser", hdr, userInput,
                   InvalidInput(UserInputErrors(userInput)))
       ELSE Begin(c, "createUser", hdr, userInput, "cu_findOne")
  /\ UNCHANGED <<users, posts, postSeq, files, unlinks, issued, now>>

\* (a variant that does not look at the result of findOne)
CreateUserFindOneIgnored(c) ==
  /\ calls[c].pc = "cu_findOne"
  /\ Goto(c, "cu_save", NoLoc)
  /\ UNCHANGED <<users, posts, postSeq, files, unlinks, issued, now>>

\* lines 47-51: the result of findOne; an existing user ends the call.
CreateUserFindOne(c) ==
  /\ calls[c].pc = "cu_findOne"
  /\ IF UsersByEmail(calls[c].arg.email) # {}
       THEN Done(c, Error("User exists already!", NoCode, <<>>))
       ELSE Goto(c, "cu_save", NoLoc)
  /\ UNCHANGED <<users, posts, postSeq, files, unlinks, issued, now>>

\* (a variant that stores the password as given)
CreateUserSavePlain(c) ==
  /\ calls[c].pc = "cu_save"
  /\ Len(users) < MaxUsers
  /\ LET u == [email |-> calls[c].arg.email,
               name |-> calls[c].arg.name,
               password |-> calls[c].arg.password,
               status |-> DefaultStatus,
               posts |-> <<>>]
     IN /\ users' = Append(users, u)
        /\ Done(c, Ok(UserDoc(Len(users) + 1, u)))
  /\ UNCHANGED <<posts, postSeq, files, unlinks, issued, now>>

\* lines 54-67: hash the password, insert the user, return the document.
CreateUserSave(c) ==
  /\ calls[c].pc = "cu_save"
  /\ Len(users) < MaxUsers
  /\ \E salt \in Salts :
       LET u == [email |-> calls[c].arg.email,
                 name |-> calls[c].arg.name,
                 password |-> BcryptHash(calls[c].arg.password, SaltRounds, salt),
                 status |-> DefaultStatus,
                 posts |-> <<>>]
       IN /\ users' = Append(users, u)
          /\ Done(c, Ok(UserDoc(Len(users) + 1, u)))
  /\ UNCHANGED <<posts, postSeq, files, unlinks, issued, now>>

\* ------------------------------------------------------------------- login
\* lines 76-78: issue User.findOne({ email }).
Login(c, hdr, email, password) ==
  /\ Free(c)
  /\ Begin(c, "login", hdr, [email |-> email, password |-> password],
           "li_findOne")
  /\ UNCHANGED <<users, posts, postSeq, files, unlinks, issued, now>>

\* lines 78-105: the user found, compare the password and sign a token.
LoginFindOne(c) ==
  /\ calls[c].pc = "li_findOne"
  /\ LET found == UsersByEmail(calls[c].arg.email) IN
       IF found = {}
         THEN /\ Done(c, Error("User not found.", 401, <<>>))
              /\ UNCHANGED issued
         ELSE \E u \in found :
                IF ~BcryptCompare(calls[c].arg.password, users[u].password)
                  THEN /\ Done(c, Error("Password is incorrect.", 401, <<>>))
                       /\ UNCHANGED issued
                  ELSE LET token == JwtSign(IdStr(u), users[u].email, Secret, now)
                       IN /\ Done(c, Ok([kind |-> "AuthData", token |-> token,
                                         userId |-> IdStr(u)]))
                          /\ issued' = issued \cup {token}
  /\ UNCHANGED <<users, posts, postSeq, files, unlinks, now>>

\* -------------------------------------------------------------- createPost
\* lines 114-150: authentication, validation, then User.findById(req.userId).
CreatePost(c, hdr, postInput) ==
  /\ Free(c)
  /\ IF ~Auth(hdr, now).isAuth
       THEN Answer(c, "createPost", hdr, postInput, NotAuthenticated)
       ELSE IF Len(PostInputErrors(postInput)) > 0
         THEN Answer(c, "createPost", hdr, postInput,
                     InvalidInput(PostInputErrors(postInput)))
         ELSE Begin(c, "createPost", hdr, postInput, "cp_findUser")
  /\ UNCHANGED <<users, posts, postSeq, files, unlinks, issued, now>>

\* lines 150-166: the user found, build the post and issue post.save().
CreatePostFindUser(c) ==
  /\ calls[c].pc = "cp_findUser"
  /\ IF UsersById(calls[c].userId) = {}
       THEN Done(c, Error("Invalid user.", 401, <<>>))
       ELSE \E u \in UsersById(calls[c].userId) :
              Goto(c, "cp_savePost", [user |-> u, doc |-> users[u]])
  /\ UNCHANGED <<users, posts, postSeq, files, unlinks, issued, now>>

\* line 166: the post is inserted under a fresh _id.
CreatePostSavePost(c) ==
  /\ calls[c].pc = "cp_savePost"
  /\ LET id == postSeq + 1
         post == [title |-> calls[c].arg.title,
                  content |-> calls[c].arg.content,
                  imageUrl |-> calls[c].arg.imageUrl,
                  creator |-> calls[c].loc.user,
                  createdAt |-> now, updatedAt |-> now]
     IN /\ posts' = [p \in PostIds \cup {id} |->
                       IF p = id THEN post ELSE posts[p]]
        /\ postSeq' = id
        /\ Goto(c, "cp_saveUser",
                [user |-> calls[c].loc.user, doc |-> calls[c].loc.doc,
                 id |-> id, post |-> post])
  /\ UNCHANGED <<users, files, unlinks, issued, now>>

\* (a variant that returns the post without the push)
CreatePostSaveUserNoPush(c) ==
  /\ calls[c].pc = "cp_saveUser"
  /\ Done(c, Ok(PostDoc(calls[c].loc.id, calls[c].loc.post,
                        UserDoc(calls[c].loc.user, calls[c].loc.doc))))
  /\ UNCHANGED <<users, posts, postSeq, files, unlinks, issued, now>>

\* lines 169-178: user.posts.push(createdPost); user.save() sends the push.
CreatePostSaveUser(c) ==
  /\ calls[c].pc = "cp_saveUser"
  /\ LET u == calls[c].loc.user
         id == calls[c].loc.id
         local == [calls[c].loc.doc EXCEPT !.posts = Append(@, id)]
     IN /\ users' = [users EXCEPT ![u].posts = Append(@, id)]
        /\ Done(c, Ok(PostDoc(id, calls[c].loc.post, UserDoc(u, local))))
  /\ UNCHANGED <<posts, postSeq, files, unlinks, issued, now>>

\* (a variant that takes the post out again when the save is rejected)
CreatePostSaveUserFailsRollback(c) ==
  /\ calls[c].pc = "cp_saveUser"
  /\ posts' = [p \in PostIds \ {calls[c].loc.id} |-> posts[p]]
  /\ Done(c, Error("save failed", NoCode, <<>>))
  /\ UNCHANGED <<users, postSeq, files, unlinks, issued, now>>

\* line 170: user.save() is rejected by the store; nothing catches it, so the
\* resolver throws with the post of line 166 written.
CreatePostSaveUserFails(c) ==
  /\ calls[c].pc = "cp_saveUser"
  /\ Done(c, Error("save failed", NoCode, <<>>))
  /\ UNCHANGED <<users, posts, postSeq, files, unlinks, issued, now>>

\* ------------------------------------------------------------------- posts
\* lines 196-198: an absent or zero page is page 1.
PageOf(page) == IF page = 0 THEN 1 ELSE page
Min(a, b) == IF a < b THEN a ELSE b
\* sort({ createdAt: -1 }): every order of the posts that is newest first;
\* the store does not say how posts of equal creation time are ordered.
SortedPosts ==
  {s \in [1..Cardinality(PostIds) -> PostIds] :
     /\ \A i, j \in DOMAIN s : i # j => s[i] # s[j]
     /\ \A i, j \in DOMAIN s :
          i < j => posts[s[i]].createdAt >= posts[s[j]].createdAt}
\* (a variant that skips nothing)
PageSliceNoSkip(s, page) == SubSeq(s, 1, Min(PerPage, Len(s)))
\* skip((page - 1) * perPage).limit(perPage)
PageSlice(s, page) ==
  SubSeq(s, (page - 1) * PerPage + 1, Min(page * PerPage, Len(s)))

\* lines 187-204: authentication, then issue the count.
Posts(c, hdr, page) ==
  /\ Free(c)
  /\ IF ~Auth(hdr, now).isAuth
       THEN Answer(c, "posts", hdr, [page |-> page], NotAuthenticated)
       ELSE Begin(c, "posts", hdr, [page |-> page], "ps_count")
  /\ UNCHANGED <<users, posts, postSeq, files, unlinks, issued, now>>

\* (a variant that counts the caller's own posts only)
PostsCountOwn(c) ==
  /\ calls[c].pc = "ps_count"
  /\ Goto(c, "ps_find",
          [totalPosts |->
             Cardinality({p \in PostIds : IdStr(posts[p].creator) = calls[c].userId})])
  /\ UNCHANGED <<users, posts, postSeq, files, unlinks, issued, now>>

\* line 204: countDocuments.
PostsCount(c) ==
  /\ calls[c].pc = "ps_count"
  /\ Goto(c, "ps_find", [totalPosts |-> Cardinality(PostIds)])
  /\ UNCHANGED <<users, posts, postSeq, files, unlinks, issued, now>>

\* lines 207-224: the page, creators populated.
PostsFind(c) ==
  /\ calls[c].pc = "ps_find"
  /\ \E s \in SortedPosts :
       LET slice == PageSlice(s, PageOf(calls[c].arg.page))
       IN Done(c, Ok([kind |-> "PostData",
                      posts |-> [i \in DOMAIN slice |-> Populated(slice[i])],
                      totalPosts |-> calls[c].loc.totalPosts]))
  /\ UNCHANGED <<users, posts, postSeq, files, unlinks, issued, now>>

\* -------------------------------------------------------------------- post
\* lines 233-242.
Post(c, hdr, id) ==
  /\ Free(c)
  /\ IF ~Auth(hdr, now).isAuth
       THEN Answer(c, "post", hdr, [id |-> id], NotAuthenticated)
       ELSE Begin(c, "post", hdr, [id |-> id], "p_find")
  /\ UNCHANGED <<users, posts, postSeq, files, unlinks, issued, now>>

\* lines 242-255.
PostFind(c) ==
  /\ calls[c].pc = "p_find"
  /\ IF PostsById(calls[c].arg.id) = {}
       THEN Done(c, NoPostFound)
       ELSE \E p \in PostsById(calls[c].arg.id) : Done(c, Ok(Populated(p)))
  /\ UNCHANGED <<users, posts, postSeq, files, unlinks, issued, now>>

\* -------------------------------------------------------------- updatePost
\* line 282: post.creator._id.toString() !== req.userId.toString()
\* line 353: post.creator.toString() !== req.userId.toString()
\* (a variant that lets every caller pass)
IsCreatorAnyone(post, userId) == TRUE
IsCreator(post, userId) == IdStr(post.creator) = userId

\* (a variant that validates the input before it looks at the post)
UpdatePostFailureValidationFirst(found, userId, postInput) ==
  IF Len(PostInputErrors(postInput)) > 0
    THEN <<InvalidInput(PostInputErrors(postInput))>>
  ELSE IF found = {} THEN <<NoPostFound>>
  ELSE IF \E p \in found : ~IsCreator(posts[p], userId) THEN <<NotAuthorized>>
  ELSE <<>>

\* lines 275-307: what the loaded post makes updatePost throw, if anything:
\* a missing post, then another user's post, then invalid input.
UpdatePostFailure(found, userId, postInput) ==
  IF found = {} THEN <<NoPostFound>>
  ELSE IF \E p \in found : ~IsCreator(posts[p], userId) THEN <<NotAuthorized>>
  ELSE IF Len(PostInputErrors(postInput)) > 0
    THEN <<InvalidInput(PostInputErrors(postInput))>>
  ELSE <<>>

\* (a variant that assigns the image reference whatever it is)
AssignedWithSentinel(post, postInput) ==
  [post EXCEPT !.title = postInput.title,
               !.content = postInput.content,
               !.imageUrl = postInput.imageUrl]

\* lines 310-315: the fields as the resolver assigns them.
Assigned(post, postInput) ==
  [post EXCEPT !.title = postInput.title,
               !.content = postInput.content,
               !.imageUrl = IF postInput.imageUrl # Sentinel
                              THEN postInput.imageUrl ELSE @]

\* lines 265-274: authentication, then Post.findById(id).populate('creator').
UpdatePost(c, hdr, id, postInput) ==
  /\ Free(c)
  /\ LET arg == [id |-> id, title |-> postInput.title,
                 content |-> postInput.content, imageUrl |-> postInput.imageUrl]
     IN IF ~Auth(hdr, now).isAuth
          THEN Answer(c, "updatePost", hdr, arg, NotAuthenticated)
          ELSE Begin(c, "updatePost", hdr, arg, "up_find")
  /\ UNCHANGED <<users, posts, postSeq, files, unlinks, issued, now>>

\* lines 274-319: the post found, the checks, the assignments, post.save().
UpdatePostFind(c) ==
  /\ calls[c].pc = "up_find"
  /\ LET found == PostsById(calls[c].arg.id)
         failure == UpdatePostFailure(found, calls[c].userId, calls[c].arg)
     IN IF Len(failure) > 0
          THEN Done(c, failure[1])
          ELSE \E p \in found :
                 Goto(c, "up_save",
                      [id |-> p, loaded |-> posts[p],
                       post |-> Assigned(posts[p], calls[c].arg),
                       creator |-> UserDoc(posts[p].creator,
                                           users[posts[p].creator])])
  /\ UNCHANGED <<users, posts, postSeq, files, unlinks, issued, now>>

\* line 319: save() writes the fields that were changed, and updatedAt with
\* them.  A post removed in the meantime is not written; whether save() then
\* throws is the library's choice.
UpdatePostSave(c) ==
  /\ calls[c].pc = "up_save"
  /\ LET p == calls[c].loc.id
         old == calls[c].loc.loaded
         new == calls[c].loc.post
         modified == new # old
         saved == [new EXCEPT !.updatedAt = IF modified THEN now ELSE @]
     IN IF p \in PostIds
          THEN /\ posts' = [posts EXCEPT ![p] =
                    [@ EXCEPT
                       !.title = IF new.title # old.title THEN new.title ELSE @,
                       !.content = IF new.content # old.content
                                     THEN new.content ELSE @,
                       !.imageUrl = IF new.imageUrl # old.imageUrl
                                      THEN new.imageUrl ELSE @,
                       !.updatedAt = IF modified THEN now ELSE @]]
               /\ Done(c, Ok(PostDoc(p, saved, calls[c].loc.creator)))
          ELSE /\ UNCHANGED posts
               /\ \/ Done(c, Ok(PostDoc(p, saved, calls[c].loc.creator)))
                  \/ Done(c, Error("No document found", NoCode, <<>>))
  /\ UNCHANGED <<users, postSeq, files, unlinks, issued, now>>

\* -------------------------------------------------------------- deletePost
\* lines 346-357: what the loaded post makes deletePost throw, if anything.
DeletePostFailure(found, userId) ==
  IF found = {} THEN <<NoPostFound>>
  ELSE IF \E p \in found : ~IsCreator(posts[p], userId) THEN <<NotAuthorized>>
  ELSE <<>>

\* (a variant without the authentication check)
DeletePostUnchecked(c, hdr, id) ==
  /\ Free(c)
  /\ Begin(c, "deletePost", hdr, [id |-> id], "dp_find")
  /\ UNCHANGED <<users, posts, postSeq, files, unlinks, issued, now>>

\* lines 336-345: authentication, then Post.findById(id).
DeletePost(c, hdr, id) ==
  /\ Free(c)
  /\ IF ~Auth(hdr, now).isAuth
       THEN Answer(c, "deletePost", hdr, [id |-> id], NotAuthenticated)
       ELSE Begin(c, "deletePost", hdr, [id |-> id], "dp_find")
  /\ UNCHANGED <<users, posts, postSeq, files, unlinks, issued, now>>

\* lines 345-363: the post found, the checks, clearImage, then the removal
\* is issued.
DeletePostFind(c) ==
  /\ calls[c].pc = "dp_find"
  /\ LET found == PostsById(calls[c].arg.id)
         failure == DeletePostFailure(found, calls[c].userId)
     IN IF Len(failure) > 0
          THEN Done(c, failure[1]) /\ UNCHANGED unlinks
          ELSE \E p \in found :
                 /\ ClearImage(posts[p].imageUrl)
                 /\ Goto(c, "dp_remove", [id |-> p])
  /\ UNCHANGED <<users, posts, postSeq, files, issued, now>>

\* (a variant that fails when the image file is not there to delete)
DeletePostRemoveStrict(c) ==
  /\ calls[c].pc = "dp_remove"
  /\ IF \E p \in PostsById(calls[c].arg.id) :
          ClearImagePath(posts[p].imageUrl) \notin files
       THEN Done(c, Error("ENOENT", NoCode, <<>>)) /\ UNCHANGED posts
       ELSE /\ posts' = [p \in PostIds \ PostsById(calls[c].arg.id) |-> posts[p]]
            /\ Goto(c, "dp_findUser", calls[c].loc)
  /\ UNCHANGED <<users, postSeq, files, unlinks, issued, now>>

\* line 363: Post.findByIdAndRemove(id); a post already gone is no error.
DeletePostRemove(c) ==
  /\ calls[c].pc = "dp_remove"
  /\ posts' = [p \in PostIds \ PostsById(calls[c].arg.id) |-> posts[p]]
  /\ Goto(c, "dp_findUser", calls[c].loc)
  /\ UNCHANGED <<users, postSeq, files, unlinks, issued, now>>

\* lines 366-368: User.findById(req.userId), then user.posts.pull(id).
DeletePostFindUser(c) ==
  /\ calls[c].pc = "dp_findUser"
  /\ IF UsersById(calls[c].userId) = {}
       THEN Done(c, Error("Cannot read property 'posts' of null", NoCode, <<>>))
       ELSE \E u \in UsersById(calls[c].userId) :
              Goto(c, "dp_saveUser", [id |-> calls[c].loc.id, user |-> u])
  /\ UNCHANGED <<users, posts, postSeq, files, unlinks, issued, now>>

\* (a variant that removes nothing)
PullNothing(s, v) == s
\* Array.pull: every occurrence of the value leaves the array.
RECURSIVE Pull(_, _)
Pull(s, v) ==
  IF s = <<>> THEN <<>>
  ELSE IF Head(s) = v THEN Pull(Tail(s), v)
  ELSE <<Head(s)>> \o Pull(Tail(s), v)

\* lines 368-371: user.save() sends the pull; the call returns true.
DeletePostSaveUser(c) ==
  /\ calls[c].pc = "dp_saveUser"
  /\ users' = [users EXCEPT ![calls[c].loc.user].posts = Pull(@, calls[c].loc.id)]
  /\ Done(c, Ok([kind |-> "Boolean", value |-> TRUE]))
  /\ UNCHANGED <<posts, postSeq, files, unlinks, issued, now>>

\* line 368: user.save() is rejected by the store; nothing catches it, so the
\* resolver throws with the removal of line 363 done.
DeletePostSaveUserFails(c) ==
  /\ calls[c].pc = "dp_saveUser"
  /\ Done(c, Error("save failed", NoCode, <<>>))
  /\ UNCHANGED <<users, posts, postSeq, files, unlinks, issued, now>>

\* -------------------------------------------------------------------- user
\* lines 380-389.
User(c, hdr) ==
  /\ Free(c)
  /\ IF ~Auth(hdr, now).isAuth
       THEN Answer(c, "user", hdr, NoArg, NotAuthenticated)
       ELSE Begin(c, "user", hdr, NoArg, "u_find")
  /\ UNCHANGED <<users, posts, postSeq, files, unlinks, issued, now>>

\* lines 389-397.
UserFind(c) ==
  /\ calls[c].pc = "u_find"
  /\ IF UsersById(calls[c].userId) = {}
       THEN Done(c, NoUserFound)
       ELSE \E u \in UsersById(calls[c].userId) : Done(c, Ok(UserDoc(u, users[u])))
  /\ UNCHANGED <<users, posts, postSeq, files, unlinks, issued, now>>

\* ------------------------------------------------------------ updateStatus
\* lines 406-415.
UpdateStatus(c, hdr, status) ==
  /\ Free(c)
  /\ IF ~Auth(hdr, now).isAuth
       THEN Answer(c, "updateStatus", hdr, [status |-> status], NotAuthenticated)
       ELSE Begin(c, "updateStatus", hdr, [status |-> status], "us_find")
  /\ UNCHANGED <<users, posts, postSeq, files, unlinks, issued, now>>

\* (a variant that loads the first stored user, whoever calls)
UpdateStatusFindFirst(c) ==
  /\ calls[c].pc = "us_find"
  /\ IF Len(users) = 0
       THEN Done(c, NoUserFound)
       ELSE Goto(c, "us_save",
                 [user |-> 1,
                  doc |-> [users[1] EXCEPT !.status = calls[c].arg.status]])
  /\ UNCHANGED <<users, posts, postSeq, files, unlinks, issued, now>>

\* lines 415-424: the user found, the status assigned, user.save() issued.
UpdateStatusFind(c) ==
  /\ calls[c].pc = "us_find"
  /\ IF UsersById(calls[c].userId) = {}
       THEN Done(c, NoUserFound)
       ELSE \E u \in UsersById(calls[c].userId) :
              Goto(c, "us_save",
                   [user |-> u,
                    doc |-> [users[u] EXCEPT !.status = calls[c].arg.status]])
  /\ UNCHANGED <<users, posts, postSeq, files, unlinks, issued, now>>

\* lines 424-427: save() writes the status.
UpdateStatusSave(c) ==
  /\ calls[c].pc = "us_save"
  /\ users' = [users EXCEPT ![calls[c].loc.user].status = calls[c].loc.doc.status]
  /\ Done(c, Ok(UserDoc(calls[c].loc.user, calls[c].loc.doc)))
  /\ UNCHANGED <<posts, postSeq, files, unlinks, issued, now>>

\* ------------------------------------------------------- PUT /post-image
\* An HTTP answer of the upload endpoint: code is the HTTP status.
Http(ok, status, message, value) ==
  [ok |-> ok, message |-> message, code |-> status, data |-> <<>>,
   value |-> value]

\* app.js, lines 54-58 and 83-106: multer stores an accepted file, then the
\* auth middleware runs, then the handler.  A handler that throws ends in the
\* error middleware (lines 137-145), which answers 500.
PutPostImage(c, hdr, file, oldPath) ==
  /\ Free(c)
  /\ LET stored == file # NoFile /\ FileFilter(file)
         path == UploadPath(now, file.originalname)
         arg == [file |-> file, oldPath |-> oldPath]
     IN /\ files' = IF stored THEN files \cup {Resolve(path)} ELSE files
        /\ IF ~Auth(hdr, now).isAuth
             THEN /\ Answer(c, "upload", hdr, arg,
                            Http(FALSE, 500, "Not authenticated!", NoValue))
                  /\ UNCHANGED unlinks
             ELSE IF ~stored
               THEN /\ Answer(c, "upload", hdr, arg,
                              Http(TRUE, 200, "No file provided!", NoValue))
                    /\ UNCHANGED unlinks
               ELSE /\ IF oldPath # NoOldPath THEN ClearImage(oldPath)
                                              ELSE UNCHANGED unlinks
                    /\ Answer(c, "upload", hdr, arg,
                              Http(TRUE, 201, "File stored.",
                                   [kind |-> "File", filePath |-> path]))
  /\ UNCHANGED <<users, posts, postSeq, issued, now>>

\* ------------------------------------------------------------- the system
Init ==
  /\ users = <<>>
  /\ posts = <<>>
  /\ postSeq = 0
  /\ files = {}
  /\ unlinks = {}
  /\ issued = {}
  /\ now = 0
  /\ calls = [c \in Calls |-> Idle]
  /\ failed = FALSE

PostInputs == [title : Titles, content : Contents, imageUrl : ImageUrls]
PostUpdates ==
  [title : Titles, content : Contents, imageUrl : ImageUrls \cup {Sentinel}]
UserInputs == [email : Emails, name : Names, password : Passwords]

\* A call arrives in slot c.
Receive(c) ==
  \/ \E hdr \in Headers, userInput \in UserInputs : CreateUser(c, hdr, userInput)
  \/ \E hdr \in Headers, e \in Emails, p \in Passwords : Login(c, hdr, e, p)
  \/ \E hdr \in Headers, postInput \in PostInputs : CreatePost(c, hdr, postInput)
  \/ \E hdr \in Headers, page \in Pages : Posts(c, hdr, page)
  \/ \E hdr \in Headers, id \in PostIdArgs : Post(c, hdr, id)
  \/ \E hdr \in Headers, id \in PostIdArgs, postInput \in PostUpdates :
       UpdatePost(c, hdr, id, postInput)
  \/ \E hdr \in Headers, id \in PostIdArgs : DeletePost(c, hdr, id)
  \/ \E hdr \in Headers : User(c, hdr)
  \/ \E hdr \in Headers, status \in Statuses : UpdateStatus(c, hdr, status)
  \/ \E hdr \in Headers, file \in UploadFiles, oldPath \in OldPaths :
       PutPostImage(c, hdr, file, oldPath)

\* A call in slot c goes on from its await.
Step(c) ==
  \/ CreateUserFindOne(c)
  \/ CreateUserSave(c)
  \/ LoginFindOne(c)
  \/ CreatePostFindUser(c)
  \/ (postSeq < MaxPosts /\ CreatePostSavePost(c))
  \/ CreatePostSaveUser(c)
  \/ PostsCount(c)
  \/ PostsFind(c)
  \/ PostFind(c)
  \/ UpdatePostFind(c)
  \/ UpdatePostSave(c)
  \/ DeletePostFind(c)
  \/ DeletePostRemove(c)
  \/ DeletePostFindUser(c)
  \/ DeletePostSaveUser(c)
  \/ UserFind(c)
  \/ UpdateStatusFind(c)
  \/ UpdateStatusSave(c)
  \/ Respond(c)

\* Calls run one at a time: one slot, the next call arrives when the result
\* of the last has gone out.
Next ==
  \/ Receive(1)
  \/ Step(1)
  \/ \E path \in unlinks : FsUnlink(path)

Spec == Init /\ [][Next]_vars

\* Calls interleave at their awaits.  The inputs are valid and the callers
\* hold tokens: a call that fails validation or authentication ends where it
\* arrives and interleaves with nothing.  A login may give a wrong password.
ValidUserInputs == {ui \in UserInputs : Len(UserInputErrors(ui)) = 0}
ValidPostInputs == {pi \in PostInputs : Len(PostInputErrors(pi)) = 0}
TokenHeaders == {<<"Bearer", t>> : t \in issued}

ReceiveConc(c) ==
  \/ \E userInput \in ValidUserInputs : CreateUser(c, <<>>, userInput)
  \/ \E userInput \in ValidUserInputs, password \in Passwords :
       Login(c, <<>>, userInput.email, password)
  \/ \E hdr \in TokenHeaders, postInput \in ValidPostInputs :
       CreatePost(c, hdr, postInput)
  \/ \E hdr \in TokenHeaders, id \in PostIdArgs : DeletePost(c, hdr, id)
  \/ \E hdr \in TokenHeaders : Posts(c, hdr, 1)

StepConc(c) ==
  \/ CreateUserFindOne(c)
  \/ CreateUserSave(c)
  \/ LoginFindOne(c)
  \/ CreatePostFindUser(c)
  \/ (postSeq < MaxPosts /\ CreatePostSavePost(c))
  \/ CreatePostSaveUser(c)
  \/ PostsCount(c)
  \/ PostsFind(c)
  \/ DeletePostFind(c)
  \/ DeletePostRemove(c)
  \/ DeletePostFindUser(c)
  \/ DeletePostSaveUser(c)
  \/ Respond(c)

NextConc ==
  \/ \E c \in Calls : ReceiveConc(c)
  \/ \E c \in Calls : StepConc(c)
  \/ \E path \in unlinks : FsUnlink(path)

SpecConc == Init /\ [][NextConc]_vars

\* Calls run one at a time while the clock advances: the callers present no
\* header, a header without a token, a forged token, or a token login
\* returned at some earlier instant.
Instants == {0, TokenTTL - 1, TokenTTL, TokenTTL + 1}
\* Time passes between two steps of the server.
Tick ==
  /\ \E t \in Instants : t > now /\ now' = t
  /\ UNCHANGED <<users, posts, postSeq, files, unlinks, issued, calls, failed>>

ClockUser == [email |-> EmailA, name |-> "Ann", password |-> "secret"]
ClockPost == [title |-> "Hello", content |-> "Lorem", imageUrl |-> ImagePath]
ClockUpdate == [title |-> "World", content |-> "Lorem", imageUrl |-> Sentinel]

ReceiveClock(c) ==
  \/ \E hdr \in Headers : CreateUser(c, hdr, ClockUser)
  \/ \E hdr \in Headers, password \in Passwords :
       /\ Cardinality(issued) < MaxTokens
       /\ Login(c, hdr, ClockUser.email, password)
  \/ \E hdr \in Headers : CreatePost(c, hdr, ClockPost)
  \/ \E hdr \in Headers : Posts(c, hdr, 1)
  \/ \E hdr \in Headers, id \in PostIdArgs : Post(c, hdr, id)
  \/ \E hdr \in Headers, id \in PostIdArgs : UpdatePost(c, hdr, id, ClockUpdate)
  \/ \E hdr \in Headers, id \in PostIdArgs : DeletePost(c, hdr, id)
  \/ \E hdr \in Headers : User(c, hdr)
  \/ \E hdr \in Headers, status \in Statuses : UpdateStatus(c, hdr, status)

NextClock ==
  \/ ReceiveClock(1)
  \/ Step(1)
  \/ \E path \in unlinks : FsUnlink(path)
  \/ Tick

SpecClock == Init /\ [][NextClock]_vars

\* Calls that create, update and delete posts, one at a time, by two users
\* who hold tokens, with valid inputs.  The clock advances once, within the
\* hour of the tokens, when all posts have been created.
OtherImagePath == UploadPath(1, "a.png")
OwnedPostIdArgs == {IdStr(i) : i \in 1..MaxOwned}
OwnedPostInputs ==
  [title : {"Hello"}, content : {"Lorem"}, imageUrl : {ImagePath, OtherImagePath}]
OwnedPostUpdates ==
  [title : {"World"}, content : {"Ipsum"}, imageUrl : {Sentinel, OtherImagePath}]

ReceiveOwned(c) ==
  \/ \E userInput \in ValidUserInputs : CreateUser(c, <<>>, userInput)
  \/ \E userInput \in ValidUserInputs :
       /\ Cardinality(issued) < MaxTokens
       /\ Login(c, <<>>, userInput.email, userInput.password)
  \/ \E hdr \in TokenHeaders, postInput \in OwnedPostInputs :
       CreatePost(c, hdr, postInput)
  \/ \E hdr \in TokenHeaders, id \in OwnedPostIdArgs, postInput \in OwnedPostUpdates :
       UpdatePost(c, hdr, id, postInput)
  \/ \E hdr \in TokenHeaders, id \in OwnedPostIdArgs : DeletePost(c, hdr, id)

StepOwned(c) ==
  \/ CreateUserFindOne(c)
  \/ CreateUserSave(c)
  \/ LoginFindOne(c)
  \/ CreatePostFindUser(c)
  \/ (postSeq < MaxOwned /\ CreatePostSavePost(c))
  \/ CreatePostSaveUser(c)
  \/ UpdatePostFind(c)
  \/ UpdatePostSave(c)
  \/ DeletePostFind(c)
  \/ DeletePostRemove(c)
  \/ DeletePostFindUser(c)
  \/ DeletePostSaveUser(c)
  \/ Respond(c)

NextOwned ==
  \/ ReceiveOwned(1)
  \/ StepOwned(1)
  \/ \E path \in unlinks : FsUnlink(path)
  \/ (now = 0 /\ postSeq = MaxOwned /\ Tick /\ now' < TokenTTL)

SpecOwned == Init /\ [][NextOwned]_vars

\* Calls one at a time by users with their tokens, where the store may
\* reject the save of the user document in createPost and in deletePost.
ReceiveFaults(c) ==
  \/ \E userInput \in ValidUserInputs : CreateUser(c, <<>>, userInput)
  \/ \E userInput \in ValidUserInputs :
       /\ Cardinality(issued) < MaxTokens
       /\ Login(c, <<>>, userInput.email, userInput.password)
  \/ \E hdr \in TokenHeaders, postInput \in ValidPostInputs :
       CreatePost(c, hdr, postInput)
  \/ \E hdr \in TokenHeaders, id \in PostIdArgs : DeletePost(c, hdr, id)

StepFaults(c) ==
  \/ CreateUserFindOne(c)
  \/ CreateUserSave(c)
  \/ LoginFindOne(c)
  \/ CreatePostFindUser(c)
  \/ (postSeq < MaxPosts /\ CreatePostSavePost(c))
  \/ CreatePostSaveUser(c)
  \/ CreatePostSaveUserFails(c)
  \/ DeletePostFind(c)
  \/ DeletePostRemove(c)
  \/ DeletePostFindUser(c)
  \/ DeletePostSaveUser(c)
  \/ DeletePostSaveUserFails(c)
  \/ Respond(c)

NextFaults ==
  \/ ReceiveFaults(1)
  \/ StepFaults(1)
  \/ \E path \in unlinks : FsUnlink(path)

SpecFaults == Init /\ [][NextFaults]_vars

\* The posts query over a store that holds any number of posts of one user,
\* created one after the other (Gap = 1) or all within the same instant
\* (Gap = 0); the user has logged in.
PageArgs == {0, 1, 2, 3, 4}         \* 0: the page argument is absent or zero
Gaps == {0, 1}
StoredUser(n) ==
  [email |-> EmailA, name |-> "Ann",
   password |-> BcryptHash("secret", SaltRounds, "salt"),
   status |-> DefaultStatus, posts |-> [i \in 1..n |-> i]]
StoredPost(p, gap) ==
  [title |-> "Hello", content |-> "Lorem", imageUrl |-> ImagePath,
   creator |-> 1, createdAt |-> p * gap, updatedAt |-> p * gap]
InitPages ==
  \E n \in 0..MaxStored, gap \in Gaps :
    /\ users = <<StoredUser(n)>>
    /\ posts = [p \in 1..n |-> StoredPost(p, gap)]
    /\ postSeq = n
    /\ files = {}
    /\ unlinks = {}
    /\ issued = {JwtSign(IdStr(1), EmailA, Secret, n * gap)}
    /\ now = n * gap
    /\ calls = [c \in Calls |-> Idle]
    /\ failed = FALSE

NextPages ==
  \/ \E hdr \in Headers, page \in PageArgs : Posts(1, hdr, page)
  \/ PostsCount(1)
  \/ PostsFind(1)
  \/ Respond(1)

SpecPages == InitPages /\ [][NextPages]_vars

\* ------------------------------------------------------------- properties
Protected ==
  {"createPost", "posts", "post", "updatePost", "deletePost", "user",
   "updateStatus"}
Quiescent == \A c \in Calls : calls[c].pc \in {"idle", "done"}
\* the step is one of the call in slot c
StepOf(c) == calls'[c] # calls[c]
Untouched == UNCHANGED <<users, posts, postSeq, files, unlinks>>
TargetOf(r) == {p \in DOMAIN posts : IdStr(p) = r.arg.id}
ShortOrEmpty(s) == Len(s) < 5

\* C1: an updatePost or deletePost by a user who is not the post's creator
\* ends with 403 and changes no user, no post and no stored image; the same
\* call by the creator (updatePost with valid input) passes the checks and
\* ends in success.
C1_OwnershipEnforced ==
  [][\A c \in Calls :
       LET r == calls[c] IN
       /\ (/\ r.pc \in {"up_find", "dp_find"}
           /\ StepOf(c)
           /\ TargetOf(r) # {})
          => \A p \in TargetOf(r) :
               IF IdStr(posts[p].creator) # r.userId
                 THEN /\ calls'[c].pc = "done"
                      /\ ~calls'[c].resp.ok
                      /\ calls'[c].resp.code = 403
                      /\ Untouched
                 ELSE (r.op = "deletePost"
                         \/ (~ShortOrEmpty(r.arg.title)
                               /\ ~ShortOrEmpty(r.arg.content)))
                      => calls'[c].pc \in {"up_save", "dp_remove"}
       /\ (/\ r.pc \in {"up_save", "dp_remove", "dp_findUser", "dp_saveUser"}
           /\ StepOf(c)
           /\ calls'[c].pc = "done")
          => /\ calls'[c].resp.ok
             /\ r.pc = "up_save" =>
                  /\ posts'[r.loc.id].title = r.arg.title
                  /\ posts'[r.loc.id].content = r.arg.content
             /\ r.pc = "dp_saveUser" =>
                  \A p \in DOMAIN posts' : IdStr(p) # r.arg.id
  ]_vars

\* C1, its case: another user's updatePost, asking for a new title, got 403.
C1_Witness ==
  \E c \in Calls :
    /\ calls[c].op = "updatePost"
    /\ calls[c].pc = "done"
    /\ calls[c].resp.code = 403
    /\ \E p \in DOMAIN posts :
         /\ IdStr(p) = calls[c].arg.id
         /\ posts[p].title # calls[c].arg.title
         /\ ~ShortOrEmpty(calls[c].arg.title)

\* C2: a call of a protected operation that arrives unauthenticated (no
\* header, no token, a token that fails verification) is answered 401 on
\* arrival, whatever its arguments, and changes nothing.
C2_Unauthenticated401 ==
  [][/\ \A hdr \in Headers :
          (\/ Len(hdr) < 2
           \/ hdr[2].key # "somesupersecretsecret"
           \/ now >= hdr[2].exp)
          => ~Auth(hdr, now).isAuth
     /\ \A c \in Calls :
          (calls'[c].op \in Protected /\ ~calls'[c].isAuth)
          => /\ calls'[c].pc = "done"
             /\ ~calls'[c].resp.ok
             /\ calls'[c].resp.code = 401
             /\ calls'[c].resp.data = <<>>
             /\ StepOf(c) => Untouched
  ]_vars

\* C2, its case: an unauthenticated deletePost of a post that exists.
C2_Witness ==
  \E c \in Calls :
    /\ calls[c].op = "deletePost"
    /\ ~calls[c].isAuth
    /\ calls[c].resp.code = 401
    /\ \E p \in DOMAIN posts : IdStr(p) = calls[c].arg.id

\* C3: with calls one at a time, whenever no call is in progress every post's
\* creator is a user whose post set holds the post, and every id in a user's
\* post set is a stored post created by that user.
C3_References ==
  Quiescent =>
    /\ \A p \in DOMAIN posts :
         /\ posts[p].creator \in 1..Len(users)
         /\ \E i \in DOMAIN users[posts[p].creator].posts :
              users[posts[p].creator].posts[i] = p
    /\ \A u \in 1..Len(users) :
         \A i \in DOMAIN users[u].posts :
           /\ users[u].posts[i] \in DOMAIN posts
           /\ posts[users[u].posts[i]].creator = u

\* C3, its case: a post was created and deleted again, and another user is
\* registered.
C3_Witness ==
  /\ Quiescent
  /\ postSeq > 0
  /\ DOMAIN posts = {}
  /\ Len(users) = 2
  /\ \E u \in 1..Len(users) : users[u].status # "I am new!"

InvalidUserInput(arg) == ~IsEmail(arg.email) \/ ShortOrEmpty(arg.password)
InvalidPostInput(arg) == ShortOrEmpty(arg.title) \/ ShortOrEmpty(arg.content)
Owned(r) ==
  \E p \in DOMAIN posts : IdStr(p) = r.arg.id /\ IdStr(posts[p].creator) = r.userId
OfAnother(r) ==
  \E p \in DOMAIN posts : IdStr(p) = r.arg.id /\ IdStr(posts[p].creator) # r.userId

\* C4 (as claimed): when no call is in progress and no call has failed, each
\* user's post set is exactly the set of stored posts that user created, also
\* when createPost and deletePost calls interleave.
C4_BackReferencesExact ==
  (Quiescent /\ ~failed) =>
    \A u \in 1..Len(users) :
      {users[u].posts[i] : i \in DOMAIN users[u].posts}
        = {p \in DOMAIN posts : posts[p].creator = u}

\* C5 (as claimed): no two stored users have the same email, also when
\* createUser calls interleave.
C5_UniqueEmails ==
  \A u, v \in 1..Len(users) : users[u].email = users[v].email => u = v

\* C6: updatePost and deletePost check existence, then ownership, then (for
\* updatePost) the input: a missing post gives 404 whatever the caller and
\* the input, another user's post gives 403 also with invalid input, and 422
\* goes only to the creator of an existing post.
C6_CheckOrder ==
  [][\A c \in Calls :
       LET r == calls[c] IN
       /\ (r.pc \in {"up_find", "dp_find"} /\ StepOf(c))
          => /\ TargetOf(r) = {} =>
                  calls'[c].pc = "done" /\ calls'[c].resp.code = 404
             /\ OfAnother(r) =>
                  calls'[c].pc = "done" /\ calls'[c].resp.code = 403
       /\ (/\ StepOf(c)
           /\ calls'[c].op \in {"updatePost", "deletePost"}
           /\ calls'[c].pc = "done"
           /\ calls'[c].resp.code = 422)
          => /\ r.op = "updatePost"
             /\ r.pc = "up_find"
             /\ Owned(r)
             /\ InvalidPostInput(r.arg)
  ]_vars

\* C6, its case: an updatePost of another user's post with an invalid title
\* got 403.
C6_Witness ==
  \E c \in Calls :
    /\ calls[c].op = "updatePost"
    /\ calls[c].pc = "done"
    /\ calls[c].resp.code = 403
    /\ ShortOrEmpty(calls[c].arg.title)
    /\ OfAnother(calls[c])

\* C7 (as claimed): an authenticated updatePost with an invalid title or
\* content ends with 422, also when the post does not exist or belongs to
\* another user.
C7_ValidationBeforeLoad ==
  \A c \in Calls :
    (/\ calls[c].op = "updatePost"
     /\ calls[c].isAuth
     /\ calls[c].pc = "done"
     /\ InvalidPostInput(calls[c].arg))
    => calls[c].resp.code = 422

\* C7 (amended): updatePost loads the post and checks ownership before it
\* validates: an authenticated updatePost with an invalid title or content
\* stops at the first failing stage, 404 for a missing post, 403 for another
\* user's post, 422 with the messages for the caller's own post; it never
\* gets to the save and changes nothing.
C7_StagesAsCoded ==
  [][\A c \in Calls :
       LET r == calls[c] IN
       (/\ calls'[c].op = "updatePost"
        /\ calls'[c].isAuth
        /\ InvalidPostInput(calls'[c].arg))
       => /\ calls'[c].pc \in {"up_find", "done"}
          /\ StepOf(c) => Untouched
          /\ (StepOf(c) /\ r.pc = "up_find")
             => /\ calls'[c].pc = "done"
                /\ calls'[c].resp.code =
                     (IF TargetOf(r) = {} THEN 404
                      ELSE IF OfAnother(r) THEN 403 ELSE 422)
                /\ (calls'[c].resp.data # <<>>) = Owned(r)
  ]_vars

\* C7, its case: an updatePost with invalid content of a post that does not
\* exist got 404.
C7_Witness ==
  \E c \in Calls :
    /\ calls[c].op = "updatePost"
    /\ calls[c].pc = "done"
    /\ calls[c].resp.code = 404
    /\ ShortOrEmpty(calls[c].arg.content)

\* C8 (as claimed): a createUser, createPost or updatePost call with invalid
\* input is answered 422 where it arrives, before any store operation.
C8_RejectedBeforeStore ==
  \A c \in Calls :
    (\/ (calls[c].op = "createUser" /\ InvalidUserInput(calls[c].arg))
     \/ /\ calls[c].op \in {"createPost", "updatePost"}
        /\ calls[c].isAuth
        /\ InvalidPostInput(calls[c].arg))
    => calls[c].pc = "done" /\ calls[c].resp.code = 422

\* C8 (amended): createUser and authenticated createPost with invalid input
\* are answered 422, with the messages, where they arrive, before any store
\* operation; an authenticated updatePost with invalid input first reads the
\* post and is rejected after that read, without a write; none of the three
\* changes the store.
C8_RejectedWithoutWrite ==
  [][\A c \in Calls :
       /\ (\/ (calls'[c].op = "createUser" /\ InvalidUserInput(calls'[c].arg))
           \/ /\ calls'[c].op = "createPost"
              /\ calls'[c].isAuth
              /\ InvalidPostInput(calls'[c].arg))
          => /\ calls'[c].pc = "done"
             /\ calls'[c].resp.code = 422
             /\ calls'[c].resp.data # <<>>
             /\ StepOf(c) => Untouched
       /\ (/\ calls'[c].op = "updatePost"
           /\ calls'[c].isAuth
           /\ InvalidPostInput(calls'[c].arg))
          => /\ calls'[c].pc \notin {"up_save"}
             /\ (calls'[c].pc = "done" /\ StepOf(c)) => calls[c].pc = "up_find"
             /\ StepOf(c) => Untouched
  ]_vars

\* C8, its case: a createUser with a short password for a registered email
\* was answered 422.
C8_Witness ==
  \E c \in Calls :
    /\ calls[c].op = "createUser"
    /\ calls[c].pc = "done"
    /\ calls[c].resp.code = 422
    /\ calls[c].arg.password = "abc"
    /\ \E u \in 1..Len(users) : users[u].email = calls[c].arg.email

\* C9: a validation failure carries one message per violated rule, in the
\* order of the checks, and there is a list exactly when a rule is violated:
\* for createUser, for an authenticated createPost, and for an updatePost by
\* the creator of the post.
C9_AllMessages ==
  \A c \in Calls :
    LET r == calls[c] IN
    r.pc = "done" =>
      /\ r.op = "createUser" =>
           /\ (r.resp.code = 422) = InvalidUserInput(r.arg)
           /\ r.resp.data =
                (IF ~IsEmail(r.arg.email)
                   THEN <<[message |-> "E-Mail is invalid."]>> ELSE <<>>)
                \o (IF ShortOrEmpty(r.arg.password)
                      THEN <<[message |-> "Password too short!"]>> ELSE <<>>)
      /\ ((r.op = "createPost" /\ r.isAuth)
            \/ (r.op = "updatePost" /\ r.isAuth /\ Owned(r))) =>
           /\ (r.resp.code = 422) = InvalidPostInput(r.arg)
           /\ r.resp.data =
                (IF ShortOrEmpty(r.arg.title)
                   THEN <<[message |-> "Title is invalid."]>> ELSE <<>>)
                \o (IF ShortOrEmpty(r.arg.content)
                      THEN <<[message |-> "Content is invalid."]>> ELSE <<>>)
      /\ r.resp.data # <<>> => r.resp.code = 422

\* C9, its case: a createUser with a malformed email and an empty password
\* got both messages.
C9_Witness ==
  \E c \in Calls :
    /\ calls[c].op = "createUser"
    /\ calls[c].pc = "done"
    /\ calls[c].arg.password = ""
    /\ Len(calls[c].resp.data) = 2

\* C10 (as claimed): a createUser whose email is already registered ends
\* with 'User exists already!' and no code, and adds no user, whatever the
\* password.
C10_ConflictAnyPassword ==
  [][\A c \in Calls :
       (/\ StepOf(c)
        /\ calls'[c].op = "createUser"
        /\ calls'[c].pc = "done"
        /\ \E u \in 1..Len(users) : users[u].email = calls'[c].arg.email)
       => /\ calls'[c].resp.message = "User exists already!"
          /\ calls'[c].resp.code = 0
          /\ users' = users
  ]_vars

\* C10 (amended): a createUser whose email is already registered adds no
\* user; with a password of at least 5 characters it ends with 'User exists
\* already!' and no code, with a shorter or empty password it ends with 422.
C10_ConflictValidPassword ==
  [][\A c \in Calls :
       (/\ StepOf(c)
        /\ calls'[c].op = "createUser"
        /\ calls'[c].pc = "done"
        /\ \E u \in 1..Len(users) : users[u].email = calls'[c].arg.email)
       => /\ users' = users
          /\ ~calls'[c].resp.ok
          /\ IF ShortOrEmpty(calls'[c].arg.password)
               THEN /\ calls'[c].resp.code = 422
                    /\ calls[c].pc = "idle"
               ELSE /\ calls'[c].resp.message = "User exists already!"
                    /\ calls'[c].resp.code = 0
                    /\ calls'[c].resp.data = <<>>
  ]_vars

\* C10, its case: a createUser with a valid password ended with 'User exists
\* already!'.
C10_Witness ==
  \E c \in Calls :
    /\ calls[c].op = "createUser"
    /\ calls[c].pc = "done"
    /\ calls[c].resp.message = "User exists already!"
    /\ ~ShortOrEmpty(calls[c].arg.password)

\* C11 (as claimed): any two login calls that failed, one for an email that
\* is not registered and one for a registered email with a wrong password,
\* went out with the same status and the same message.
C11_LoginFailuresAlike ==
  \A c, d \in Calls :
    (/\ calls[c].op = "login" /\ calls[c].pc = "done" /\ ~calls[c].resp.ok
     /\ calls[d].op = "login" /\ calls[d].pc = "done" /\ ~calls[d].resp.ok
     /\ UsersByEmail(calls[c].arg.email) = {}
     /\ UsersByEmail(calls[d].arg.email) # {})
    => /\ calls[c].out.error.status = 401
       /\ calls[d].out.error.status = 401
       /\ calls[c].out.error.message = calls[d].out.error.message

\* C12: a login with a registered user's email and the password given at
\* registration ends in success with that user's identifier and a token that
\* the auth middleware, at the instant of the login and at every later
\* instant within the hour, turns into an authenticated identity with the
\* same identifier; a login succeeds for no other input, and no step of a
\* login changes the store.
C12_LoginRoundTrip ==
  [][\A c \in Calls :
       /\ (StepOf(c) /\ calls'[c].op = "login") => Untouched
       /\ (StepOf(c) /\ calls[c].pc = "li_findOne") =>
            /\ \A u \in 1..Len(users) :
                 (/\ users[u].email = calls[c].arg.email
                  /\ BcryptCompare(calls[c].arg.password, users[u].password))
                 => /\ calls'[c].out.kind = "data"
                    /\ calls'[c].out.data.userId = IdStr(u)
                    /\ \A t \in Instants :
                         (now <= t /\ t < now + 3600) =>
                           Auth(<<"Bearer", calls'[c].out.data.token>>, t)
                             = [isAuth |-> TRUE, userId |-> IdStr(u)]
            /\ calls'[c].resp.ok =>
                 \E u \in 1..Len(users) :
                   /\ users[u].email = calls[c].arg.email
                   /\ BcryptCompare(calls[c].arg.password, users[u].password)
  ]_vars

\* C12, its case: a login succeeded one second before the hour, and its
\* token is presented at the hour.
C12_Witness ==
  \E c \in Calls :
    /\ calls[c].op = "login"
    /\ calls[c].pc = "done"
    /\ calls[c].out.kind = "data"
    /\ calls[c].out.data.token.iat = 3599
    /\ now = 3600
    /\ Auth(<<"Bearer", calls[c].out.data.token>>, now).isAuth

\* the header carries a token signed with the secret and younger than an hour
InWindow(hdr, t) ==
  /\ Len(hdr) = 2
  /\ hdr[2].key = "somesupersecretsecret"
  /\ t < hdr[2].iat + 3600

\* C13: a token login returned at instant t makes the auth middleware
\* authenticate its user at every instant before t + 3600 and at none from
\* t + 3600 on; an absent header, a header without a token, a forged token
\* and an expired token give the unauthenticated identity and no error: the
\* call is dispatched, login and createUser go on to their lookup, and every
\* other operation ends with 401.
C13_TokenWindow ==
  [][/\ \A hdr \in Headers :
          Auth(hdr, now) =
            (IF InWindow(hdr, now)
               THEN [isAuth |-> TRUE, userId |-> hdr[2].userId]
               ELSE [isAuth |-> FALSE, userId |-> ""])
     /\ \A tok \in issued :
          /\ tok.iat <= now
          /\ \A t \in Instants :
               t >= tok.iat =>
                 (Auth(<<"Bearer", tok>>, t).isAuth <=> t < tok.iat + 3600)
     /\ \A c \in Calls, hdr \in Headers :
          (\/ (calls'[c].op = "user" /\ User(c, hdr))
           \/ /\ calls'[c].op = "login"
              /\ Login(c, hdr, calls'[c].arg.email, calls'[c].arg.password))
          => calls'[c].isAuth = InWindow(hdr, now)
     /\ \A c \in Calls :
          (calls[c].pc = "idle" /\ StepOf(c) /\ ~calls'[c].isAuth)
          => /\ calls'[c].op \in Protected =>
                  /\ calls'[c].pc = "done"
                  /\ calls'[c].out.kind = "errors"
                  /\ calls'[c].out.error.status = 401
             /\ calls'[c].op = "login" => calls'[c].pc = "li_findOne"
             /\ calls'[c].op = "createUser" => calls'[c].pc = "cu_findOne"
  ]_vars

\* C13, its case: at the hour a token of instant 0 has expired while one of
\* a second before the hour has not, and a protected call has ended with 401.
C13_Witness ==
  /\ now = 3600
  /\ \E tok \in issued : tok.iat = 0 /\ ~Auth(<<"Bearer", tok>>, now).isAuth
  /\ \E tok \in issued : tok.iat = 3599 /\ Auth(<<"Bearer", tok>>, now).isAuth
  /\ \E c \in Calls :
       /\ calls[c].op \in Protected
       /\ calls[c].pc = "done"
       /\ ~calls[c].isAuth
       /\ calls[c].out.error.status = 401

\* C14: an authenticated posts call for page n (1 when the argument is absent
\* or zero) over a store of N posts ends in success with totalPosts = N and
\* max(0, min(2, N - 2(n - 1))) posts, which are the posts at the positions
\* 2(n - 1) + 1 .. min(2n, N) of the stored posts from newest to oldest.
C14_Page ==
  \A c \in Calls :
    (calls[c].op = "posts" /\ calls[c].pc = "done" /\ calls[c].isAuth) =>
      /\ calls[c].out.kind = "data"
      /\ LET n == IF calls[c].arg.page = 0 THEN 1 ELSE calls[c].arg.page
             N == Cardinality(DOMAIN posts)
             r == calls[c].out.data.posts
             rest == N - 2 * (n - 1)
             Newer(p) == {q \in DOMAIN posts :
                            posts[q].createdAt > posts[p].createdAt}
             NotOlder(p) == {q \in DOMAIN posts :
                               posts[q].createdAt >= posts[p].createdAt}
         IN /\ calls[c].out.data.totalPosts = N
            /\ Len(r) = (IF rest <= 0 THEN 0 ELSE IF rest >= 2 THEN 2 ELSE rest)
            /\ \A i, j \in DOMAIN r : r[i]._id = r[j]._id => i = j
            /\ \A i \in DOMAIN r :
                 \E p \in DOMAIN posts :
                   /\ r[i]._id = IdStr(p)
                   /\ Cardinality(Newer(p)) <= 2 * (n - 1) + i - 1
                   /\ Cardinality(NotOlder(p)) >= 2 * (n - 1) + i

\* C14, its case: page 3 of five posts holds the oldest post alone.
C14_Witness ==
  \E c \in Calls :
    /\ calls[c].op = "posts"
    /\ calls[c].pc = "done"
    /\ calls[c].arg.page = 3
    /\ Cardinality(DOMAIN posts) = 5
    /\ posts[1].createdAt < posts[2].createdAt
    /\ calls[c].out.kind = "data"
    /\ Len(calls[c].out.data.posts) = 1
    /\ calls[c].out.data.posts[1]._id = IdStr(1)
    /\ calls[c].out.data.totalPosts = 5

\* the stored post q is the same before and after the step
SamePost(q) == q \in DOMAIN posts' /\ posts'[q] = posts[q]
\* the stored user v is the same before and after the step, but for its posts
SameProfile(v) ==
  /\ users'[v].email = users[v].email
  /\ users'[v].name = users[v].name
  /\ users'[v].password = users[v].password
  /\ users'[v].status = users[v].status
SameUsers == Len(users') = Len(users) /\ \A v \in 1..Len(users) : SameProfile(v)

\* C15: the steps of a deletePost by the creator of post p do this and no
\* more: a delete of the file at p's image path is issued, p leaves the
\* store, p's id leaves the creator's post set, and the call ends in
\* success; every other post, every other user's post set, every user's
\* email, name, password hash and status and the stored files stay as they
\* are.
C15_DeleteEffects ==
  [][\A c \in Calls :
       LET r == calls[c] IN
       (StepOf(c) /\ r.op = "deletePost" /\ r.isAuth /\ r.pc # "done") =>
         /\ SameUsers
         /\ files' = files
         /\ postSeq' = postSeq
         /\ (r.pc = "dp_find" /\ Owned(r)) =>
              /\ calls'[c].pc = "dp_remove"
              /\ posts' = posts
              /\ users' = users
              /\ \E p \in TargetOf(r) :
                   unlinks' = unlinks \cup {"backend/" \o posts[p].imageUrl}
         /\ r.pc = "dp_remove" =>
              /\ DOMAIN posts' = DOMAIN posts \ {r.loc.id}
              /\ \A q \in DOMAIN posts \ {r.loc.id} : SamePost(q)
              /\ users' = users
              /\ unlinks' = unlinks
         /\ r.pc = "dp_findUser" => Untouched
         /\ r.pc = "dp_saveUser" =>
              /\ calls'[c].pc = "done"
              /\ calls'[c].resp.ok
              /\ posts' = posts
              /\ unlinks' = unlinks
              /\ r.loc.id \notin DOMAIN posts'
              /\ \A v \in 1..Len(users) :
                   IF IdStr(v) = r.userId
                     THEN /\ \A i \in DOMAIN users'[v].posts :
                               users'[v].posts[i] # r.loc.id
                          /\ {users'[v].posts[i] : i \in DOMAIN users'[v].posts}
                               = {users[v].posts[i] : i \in DOMAIN users[v].posts}
                                   \ {r.loc.id}
                     ELSE users'[v].posts = users[v].posts
  ]_vars

\* C15, its case: a deletePost ended in success while another user's post
\* is stored and the delete of the image is issued.
C15_Witness ==
  \E c \in Calls :
    /\ calls[c].op = "deletePost"
    /\ calls[c].pc = "done"
    /\ calls[c].resp.ok
    /\ unlinks # {}
    /\ Len(users) = 2
    /\ \E q \in DOMAIN posts :
         /\ IdStr(q) # calls[c].arg.id
         /\ IdStr(posts[q].creator) # calls[c].userId
         /\ users[posts[q].creator].posts = <<q>>

\* C16: the steps of a createPost by the authenticated user u with valid input
\* do this and no more: one post is added under a fresh id, with u as its
\* creator and the input's title, content and image reference, then the id is
\* appended to u's post set and the call ends in success; no other post and
\* no other user changes.
C16_CreateEffects ==
  [][\A c \in Calls :
       LET r == calls[c] IN
       (StepOf(c) /\ r.op = "createPost" /\ r.pc \notin {"idle", "done"}) =>
         /\ SameUsers
         /\ files' = files
         /\ unlinks' = unlinks
         /\ \A q \in DOMAIN posts : SamePost(q)
         /\ r.pc = "cp_findUser" => (Untouched /\ calls'[c].pc = "cp_savePost")
         /\ r.pc = "cp_savePost" =>
              /\ users' = users
              /\ Cardinality(DOMAIN posts') = Cardinality(DOMAIN posts) + 1
              /\ \A id \in DOMAIN posts' \ DOMAIN posts :
                   /\ IdStr(posts'[id].creator) = r.userId
                   /\ posts'[id].title = r.arg.title
                   /\ posts'[id].content = r.arg.content
                   /\ posts'[id].imageUrl = r.arg.imageUrl
                   /\ calls'[c].loc.id = id
         /\ r.pc = "cp_saveUser" =>
              /\ posts' = posts
              /\ calls'[c].pc = "done"
              /\ calls'[c].resp.ok
              /\ calls'[c].out.data._id = IdStr(r.loc.id)
              /\ \A v \in 1..Len(users) :
                   users'[v].posts =
                     (IF IdStr(v) = r.userId
                        THEN users[v].posts \o <<r.loc.id>>
                        ELSE users[v].posts)
  ]_vars

\* C16, its case: the second user's createPost ended in success while the
\* first user's post is stored.
C16_Witness ==
  \E c \in Calls :
    /\ calls[c].op = "createPost"
    /\ calls[c].pc = "done"
    /\ calls[c].resp.ok
    /\ calls[c].userId = IdStr(2)
    /\ DOMAIN posts = {1, 2}
    /\ posts[1].creator = 1
    /\ posts[2].creator = 2
    /\ users[1].posts = <<1>>
    /\ users[2].posts = <<2>>

\* C17: the steps of an updatePost by the post's creator with valid input do
\* this and no more: the post's title and content become the input's, its
\* image reference becomes the input's unless that is 'undefined', and then
\* stays; its creator and creation time, every other post, every user and
\* the stored files stay as they are, and the call ends in success.
C17_UpdateEffects ==
  [][\A c \in Calls :
       LET r == calls[c] IN
       (StepOf(c) /\ r.op = "updatePost" /\ r.pc \notin {"idle", "done"}) =>
         /\ users' = users
         /\ files' = files
         /\ unlinks' = unlinks
         /\ postSeq' = postSeq
         /\ DOMAIN posts' = DOMAIN posts
         /\ r.pc = "up_find" => posts' = posts
         /\ r.pc = "up_save" =>
              /\ calls'[c].pc = "done"
              /\ calls'[c].resp.ok
              /\ \A q \in DOMAIN posts :
                   IF IdStr(q) = r.arg.id
                     THEN /\ posts'[q].title = r.arg.title
                          /\ posts'[q].content = r.arg.content
                          /\ posts'[q].imageUrl =
                               (IF r.arg.imageUrl = "undefined"
                                  THEN posts[q].imageUrl ELSE r.arg.imageUrl)
                          /\ posts'[q].creator = posts[q].creator
                          /\ posts'[q].createdAt = posts[q].createdAt
                          /\ calls'[c].out.data.imageUrl = posts'[q].imageUrl
                     ELSE SamePost(q)
  ]_vars

\* C17, its case: an updatePost with the image reference 'undefined' ended in
\* success, later than the post was created, and the post kept its image
\* while another post is stored.
C17_Witness ==
  \E c \in Calls :
    /\ calls[c].op = "updatePost"
    /\ calls[c].pc = "done"
    /\ calls[c].resp.ok
    /\ calls[c].arg.imageUrl = "undefined"
    /\ Cardinality(DOMAIN posts) = 2
    /\ \E q \in DOMAIN posts :
         /\ IdStr(q) = calls[c].arg.id
         /\ posts[q].title = calls[c].arg.title
         /\ posts[q].imageUrl # "undefined"
         /\ posts[q].updatedAt > posts[q].createdAt

GraphQLOps ==
  {"createUser", "login", "createPost", "posts", "post", "updatePost",
   "deletePost", "user", "updateStatus"}
\* the user object u, as a caller received it, shows a stored password hash
ShowsHash(u) ==
  /\ "password" \in DOMAIN u
  /\ \E i \in 1..Len(users) : users[i].password = u.password

\* C18 (as claimed): no result that went out to a caller holds a stored
\* password hash, neither as the User returned nor as the creator inside a
\* Post returned.
C18_NoPasswordHash ==
  \A c \in Calls :
    calls[c].out.kind = "data" =>
      LET kind == calls[c].resp.value.kind
          d == calls[c].out.data
      IN /\ kind = "User" => ~ShowsHash(d)
         /\ kind = "Post" => ~ShowsHash(d.creator)
         /\ kind = "PostData" =>
              \A i \in DOMAIN d.posts : ~ShowsHash(d.posts[i].creator)

\* C19 (as claimed): an upload call without a valid token ends in an error,
\* stores no file and issues no delete of a stored file.
C19_UploadNeedsToken ==
  [][\A c \in Calls :
       (StepOf(c) /\ calls'[c].op = "upload" /\ ~calls'[c].isAuth)
       => /\ ~calls'[c].resp.ok
          /\ files' = files
          /\ unlinks' = unlinks
  ]_vars

\* C20: the error that goes out for a failed GraphQL call has the message of
\* the error raised, the code attached to it as its status, or 500 when none
\* was attached, and the data attached to it: 422 with the message list for
\* a validation failure, 401, 403 and 404 without data, and 500 for 'User
\* exists already!'.
C20_CodeAndDataSurfaced ==
  \A c \in Calls :
    (calls[c].pc = "done" /\ calls[c].op \in GraphQLOps /\ ~calls[c].resp.ok)
    => LET raised == calls[c].resp
           e == calls[c].out.error
       IN /\ calls[c].out.kind = "errors"
          /\ e.message = raised.message
          /\ e.data = raised.data
          /\ e.status = (IF raised.code = 0 THEN 500 ELSE raised.code)
          /\ e.message = "Invalid input." => (e.status = 422 /\ e.data # <<>>)
          /\ e.message = "Not authenticated!" => (e.status = 401 /\ e.data = <<>>)
          /\ e.message = "Not authorized!" => (e.status = 403 /\ e.data = <<>>)
          /\ e.message \in {"No post found!", "No user found!"}
               => (e.status = 404 /\ e.data = <<>>)
          /\ e.message = "User exists already!"
               => (e.status = 500 /\ e.data = <<>>)
          /\ e.status \in {401, 403, 404, 422, 500}

\* C20, its case: a createUser for a registered email went out with status
\* 500.
C20_Witness ==
  \E c \in Calls :
    /\ calls[c].op = "createUser"
    /\ calls[c].pc = "done"
    /\ calls[c].out.kind = "errors"
    /\ calls[c].out.error.message = "User exists already!"
    /\ calls[c].out.error.status = 500

\* C21: a createUser call with a well-formed email and a password of at least
\* 5 characters is not rejected by validation; if no stored user has that
\* email it goes on to the insert, which ends the call in success and adds
\* exactly one user with the input's email and name, the status 'I am new!',
\* an empty post set and a password hash that is not the password and that
\* verifies against it; no step of the call changes a stored user or a post.
C21_CreateUserEffects ==
  [][\A c \in Calls :
       LET r == calls[c] IN
       /\ (StepOf(c) /\ r.pc = "idle" /\ calls'[c].op = "createUser"
             /\ IsEmail(calls'[c].arg.email)
             /\ Len(calls'[c].arg.password) >= 5) =>
            (Untouched /\ calls'[c].pc = "cu_findOne")
       /\ (StepOf(c) /\ r.op = "createUser" /\ r.pc \notin {"idle", "done"}) =>
            /\ posts' = posts
            /\ postSeq' = postSeq
            /\ files' = files
            /\ unlinks' = unlinks
            /\ Len(users') >= Len(users)
            /\ \A v \in 1..Len(users) : users'[v] = users[v]
            /\ r.pc = "cu_findOne" =>
                 /\ users' = users
                 /\ UsersByEmail(r.arg.email) = {} => calls'[c].pc = "cu_save"
            /\ r.pc = "cu_save" =>
                 /\ Len(users') = Len(users) + 1
                 /\ users'[Len(users')].email = r.arg.email
                 /\ users'[Len(users')].name = r.arg.name
                 /\ users'[Len(users')].status = "I am new!"
                 /\ users'[Len(users')].posts = <<>>
                 /\ users'[Len(users')].password # r.arg.password
                 /\ BcryptCompare(r.arg.password, users'[Len(users')].password)
                 /\ \A pw \in Passwords \ {r.arg.password} :
                      ~BcryptCompare(pw, users'[Len(users')].password)
                 /\ calls'[c].pc = "done"
                 /\ calls'[c].resp.ok
                 /\ calls'[c].out.data.email = r.arg.email
  ]_vars

\* C21, its case: a second user was created while the first one has a post.
C21_Witness ==
  \E c \in Calls :
    /\ calls[c].op = "createUser"
    /\ calls[c].pc = "done"
    /\ calls[c].resp.ok
    /\ Len(users) = 2
    /\ users[2].email = calls[c].arg.email
    /\ users[2].email # users[1].email
    /\ users[1].posts # <<>>
    /\ BcryptCompare("secret", users[2].password)

\* C22: in every step, no stored user is removed and no stored user's email,
\* name or password hash changes; a user's status changes only in a step of
\* an updateStatus call authenticated as that user, and a user's post set
\* changes only in a step of a createPost or deletePost call authenticated as
\* that user.
C22_UserLifecycle ==
  [][/\ Len(users') >= Len(users)
     /\ \A v \in 1..Len(users) :
          /\ users'[v].email = users[v].email
          /\ users'[v].name = users[v].name
          /\ users'[v].password = users[v].password
          /\ users'[v].status # users[v].status =>
               \E c \in Calls :
                 /\ StepOf(c)
                 /\ calls[c].op = "updateStatus"
                 /\ calls[c].isAuth
                 /\ calls[c].userId = IdStr(v)
          /\ users'[v].posts # users[v].posts =>
               \E c \in Calls :
                 /\ StepOf(c)
                 /\ calls[c].op \in {"createPost", "deletePost"}
                 /\ calls[c].isAuth
                 /\ calls[c].userId = IdStr(v)
  ]_vars

\* C22, its case: the second user's updateStatus ended in success and changed
\* that user's status only, after the first user's post set had changed.
C22_Witness ==
  \E c \in Calls :
    /\ calls[c].op = "updateStatus"
    /\ calls[c].pc = "done"
    /\ calls[c].resp.ok
    /\ calls[c].userId = IdStr(2)
    /\ Len(users) = 2
    /\ users[2].status = "busy"
    /\ users[1].status = "I am new!"
    /\ users[1].posts # <<>>

\* the upload call that arrives in this step carries an image file
Accepted(c) ==
  /\ calls'[c].arg.file # NoFile
  /\ calls'[c].arg.file.mimetype \in {"image/png", "image/jpg", "image/jpeg"}

\* C23, as stated: every authenticated upload call that carries a previous
\* path issues a delete of the stored file at that path, with or without an
\* accepted file, and a call whose file is accepted answers with the path of
\* the newly stored file.
C23_OldFileAlwaysDeleted ==
  [][\A c \in Calls :
       (StepOf(c) /\ calls'[c].op = "upload" /\ calls'[c].isAuth) =>
         /\ calls'[c].arg.oldPath # "" =>
              ClearImagePath(calls'[c].arg.oldPath) \in unlinks'
         /\ Accepted(c) =>
              /\ calls'[c].resp.code = 201
              /\ Resolve(calls'[c].resp.value.filePath) \in files'
  ]_vars

\* C23, amended: an authenticated upload call whose file is accepted answers
\* 201 with the path of the newly stored file, and issues a delete of the
\* stored file at the previous path exactly when it carries one; an
\* authenticated call without an accepted file answers 200 'No file
\* provided!' and issues no delete, whatever previous path it carries.
C23_OldFileDeletedWithNewFile ==
  [][\A c \in Calls :
       (StepOf(c) /\ calls'[c].op = "upload" /\ calls'[c].isAuth) =>
         IF Accepted(c)
           THEN /\ calls'[c].resp.code = 201
                /\ calls'[c].out.status = 201
                /\ Resolve(calls'[c].resp.value.filePath) \in files'
                /\ unlinks' =
                     (IF calls'[c].arg.oldPath # ""
                        THEN unlinks \cup {ClearImagePath(calls'[c].arg.oldPath)}
                        ELSE unlinks)
           ELSE /\ calls'[c].resp.code = 200
                /\ calls'[c].resp.message = "No file provided!"
                /\ unlinks' = unlinks
                /\ files' = files
  ]_vars

\* C23, its case: an authenticated upload with an accepted file and a
\* previous path was answered with the new path, and the delete of the file
\* at the previous path is issued.
C23_Witness ==
  \E c \in Calls :
    /\ calls[c].op = "upload"
    /\ calls[c].pc = "done"
    /\ calls[c].isAuth
    /\ calls[c].arg.oldPath # ""
    /\ calls[c].arg.file.mimetype = "image/png"
    /\ calls[c].resp.code = 201
    /\ Resolve(calls[c].resp.value.filePath) \in files
    /\ ClearImagePath(calls[c].arg.oldPath) \in unlinks

\* the post set of user v holds the post id p
Refers(v, p) == \E i \in DOMAIN users[v].posts : users[v].posts[i] = p

\* C24: a deletePost call that passed its checks issues its effects one per
\* step and in this order: the delete of the image file, while the post is
\* stored and referenced; the removal of the post, while the reference is
\* still in the creator's post set; the removal of the reference, which ends
\* the call in success.  The file delete is carried out apart from the call,
\* and whether it removes a file or finds none, it changes no call and no
\* stored document, so the call goes on the same way.
C24_DeleteOrder ==
  [][/\ \A c \in Calls :
          LET r == calls[c] IN
          (StepOf(c) /\ r.op = "deletePost" /\ r.pc \notin {"idle", "done"}) =>
            /\ files' = files
            /\ (r.pc = "dp_find" /\ calls'[c].pc # "done") =>
                 /\ calls'[c].pc = "dp_remove"
                 /\ \E p \in TargetOf(r) :
                      /\ ClearImagePath(posts[p].imageUrl) \in unlinks'
                      /\ p \in DOMAIN posts'
                      /\ calls'[c].loc.id = p
                 /\ posts' = posts
                 /\ users' = users
            /\ r.pc = "dp_remove" =>
                 /\ calls'[c].pc = "dp_findUser"
                 /\ r.loc.id \in DOMAIN posts
                 /\ r.loc.id \notin DOMAIN posts'
                 /\ unlinks' = unlinks
                 /\ users' = users
                 /\ \E v \in 1..Len(users) :
                      IdStr(v) = r.userId /\ Refers(v, r.loc.id)
            /\ r.pc = "dp_findUser" =>
                 (Untouched /\ calls'[c].pc = "dp_saveUser")
            /\ r.pc = "dp_saveUser" =>
                 /\ calls'[c].pc = "done"
                 /\ calls'[c].resp.ok
                 /\ calls'[c].out.data.value = TRUE
                 /\ posts' = posts
                 /\ unlinks' = unlinks
                 /\ r.loc.id \notin DOMAIN posts
                 /\ Refers(r.loc.user, r.loc.id)
                 /\ \A i \in DOMAIN users'[r.loc.user].posts :
                      users'[r.loc.user].posts[i] # r.loc.id
     /\ (\A c \in Calls : ~StepOf(c)) =>
          /\ posts' = posts
          /\ users' = users
          /\ unlinks' \subseteq unlinks
  ]_vars

\* C24, its case: a deletePost ended in success, the post and its reference
\* are gone, and the delete of its image, still to be carried out, will find
\* no file.
C24_Witness ==
  \E c \in Calls :
    /\ calls[c].op = "deletePost"
    /\ calls[c].pc = "done"
    /\ calls[c].resp.ok
    /\ posts = <<>>
    /\ postSeq > 0
    /\ \A v \in 1..Len(users) : users[v].posts = <<>>
    /\ unlinks # {}
    /\ \A path \in unlinks : path \notin files

\* C25: when the store rejects the save of the user document in createPost,
\* the call ends in an error, the post it inserted stays stored and no post
\* set refers to it; when the store rejects the save of the user document in
\* deletePost, the call ends in an error, the post stays removed and the
\* creator's post set still holds its id; a call that has ended takes no
\* further step but its answer, so nothing is retried or undone.
C25_NoRollback ==
  [][\A c \in Calls :
       LET r == calls[c] IN
       /\ (StepOf(c) /\ r.pc = "cp_saveUser" /\ ~calls'[c].resp.ok) =>
            /\ calls'[c].pc = "done"
            /\ calls'[c].out.kind = "errors"
            /\ calls'[c].out.error.status = 500
            /\ Untouched
            /\ r.loc.id \in DOMAIN posts'
            /\ posts'[r.loc.id].creator = r.loc.user
            /\ \A v \in 1..Len(users) :
                 \A i \in DOMAIN users'[v].posts : users'[v].posts[i] # r.loc.id
       /\ (StepOf(c) /\ r.pc = "dp_saveUser" /\ ~calls'[c].resp.ok) =>
            /\ calls'[c].pc = "done"
            /\ calls'[c].out.kind = "errors"
            /\ calls'[c].out.error.status = 500
            /\ Untouched
            /\ r.loc.id \notin DOMAIN posts'
            /\ users'[r.loc.user].posts = users[r.loc.user].posts
       /\ (StepOf(c) /\ r.pc = "done") =>
            (Untouched /\ calls'[c].pc = "idle")
  ]_vars

\* C25, its case: a createPost ended in an error after its insert, and the
\* post is stored with no reference in its creator's post set.
C25_Witness ==
  \E c \in Calls :
    /\ calls[c].op = "createPost"
    /\ calls[c].pc = "done"
    /\ ~calls[c].resp.ok
    /\ calls[c].resp.message = "save failed"
    /\ \E p \in DOMAIN posts :
         /\ IdStr(posts[p].creator) = calls[c].userId
         /\ users[posts[p].creator].posts = <<>>

\* C26, as stated: the totalPosts a posts call returns is the number of posts
\* stored when its page is read, and its page holds no more posts than
\* totalPosts, whatever other calls do between its two queries.
C26_CountAndPageOfOneState ==
  [][\A c \in Calls :
       (StepOf(c) /\ calls[c].pc = "ps_find") =>
         /\ calls'[c].out.data.totalPosts = Cardinality(DOMAIN posts)
         /\ Len(calls'[c].out.data.posts) <= calls'[c].out.data.totalPosts
  ]_vars

\* C26, amended: the totalPosts a posts call returns is the number of posts
\* stored at its count query, and its page is read from the store as it is
\* at its page query: the posts of the requested page of that store, no more
\* than two; the two agree when the number of stored posts is the same at
\* both queries.
C26_CountThenPage ==
  [][\A c \in Calls :
       LET r == calls[c] IN
       /\ (StepOf(c) /\ r.pc = "ps_count") =>
            /\ Untouched
            /\ calls'[c].pc = "ps_find"
            /\ calls'[c].loc.totalPosts = Cardinality(DOMAIN posts)
       /\ (StepOf(c) /\ r.pc = "ps_find") =>
            /\ Untouched
            /\ calls'[c].resp.ok
            /\ calls'[c].out.data.totalPosts = r.loc.totalPosts
            /\ LET skip == 2 * (PageOf(r.arg.page) - 1)
                   n == Cardinality(DOMAIN posts)
               IN Len(calls'[c].out.data.posts) =
                    (IF n <= skip THEN 0 ELSE Min(2, n - skip))
            /\ \A i \in DOMAIN calls'[c].out.data.posts :
                 \E p \in DOMAIN posts :
                   calls'[c].out.data.posts[i]._id = IdStr(p)
            /\ r.loc.totalPosts = Cardinality(DOMAIN posts) =>
                 Len(calls'[c].out.data.posts) <= calls'[c].out.data.totalPosts
  ]_vars

\* C26, its case: a posts call counted an empty store, another caller's
\* createPost inserted a post, and the page then read holds that post.
C26_Witness ==
  \E c \in Calls :
    /\ calls[c].op = "posts"
    /\ calls[c].pc = "done"
    /\ calls[c].resp.ok
    /\ calls[c].out.data.totalPosts = 0
    /\ Len(calls[c].out.data.posts) = 1
    /\ \E p \in DOMAIN posts : IdStr(posts[p].creator) # calls[c].userId

\* C27: in every state, every token login has issued names a stored user
\* with the token's email, and every call that passed authentication acts
\* for the user of such a token: that user is stored, so the call does not
\* end in 'No user found!' or 'Invalid user.', and a deletePost that is about
\* to update the post set has found the user.
C27_TokenUserExists ==
  /\ \A token \in issued :
       \E u \in 1..Len(users) :
         IdStr(u) = token.userId /\ users[u].email = token.email
  /\ \A c \in Calls :
       calls[c].isAuth =>
         /\ \E token \in issued : token.userId = calls[c].userId
         /\ \E u \in 1..Len(users) : IdStr(u) = calls[c].userId
         /\ calls[c].pc = "done" =>
              calls[c].resp.message \notin
                {"No user found!", "Invalid user.",
                 "Cannot read property 'posts' of null"}
         /\ calls[c].pc = "dp_saveUser" =>
              IdStr(calls[c].loc.user) = calls[c].userId

\* C27, its case: with two users stored, a user call made with the second
\* user's token ended in success with that user's document.
C27_Witness ==
  \E c \in Calls :
    /\ calls[c].op = "user"
    /\ calls[c].pc = "done"
    /\ calls[c].isAuth
    /\ calls[c].resp.ok
    /\ calls[c].userId = IdStr(2)
    /\ calls[c].out.data._id = IdStr(2)
    /\ \E token \in issued : token.userId = IdStr(2)

\* C28: a step that issues the delete of the file at the image reference of
\* a stored post is a step of a deletePost call on that post, made by its
\* creator.
C28_ImageDeletedByOwnDelete ==
  [][\A p \in DOMAIN posts :
       (/\ ClearImagePath(posts[p].imageUrl) \in unlinks' \ unlinks
        /\ ClearImagePath(posts[p].imageUrl) \in files) =>
         \E c \in Calls :
           /\ StepOf(c)
           /\ calls[c].op = "deletePost"
           /\ calls[c].arg.id = IdStr(p)
           /\ calls[c].userId = IdStr(posts[p].creator)
  ]_vars
====
